---- MODULE Spec2Model ----
(***************************************************************************)
(* Model of the contracts-table scraper (src/main.py): the crawl loop of   *)
(* scrape, process_current_table, wait_table_ready, collect_rows,          *)
(* click_next, page_signature, open_details_and_extract and the field      *)
(* extractor, run against a client-rendered table view whose content is    *)
(* chosen by the environment.                                              *)
(*                                                                         *)
(* Text is a sequence of one-character strings; an href is a sequence of   *)
(* path segments, so that "x in href" is a contiguous-subsequence test.    *)
(***************************************************************************)
EXTENDS Integers, Sequences, FiniteSets, TLC

\* ------------------------------------------------------------ bounds
\* Number of page contents the view shows in one run (initial load included).
MaxPages == 2
\* Number of anchors in one page content.
MaxRows == 2
\* Number of distinct detail links of the site.
NumTokens == 2
\* Number of click_next returns the history keeps for a scripted site.
MaxAdvances == 4
\* Number of anchors in a page handed to collect_rows on its own.
MaxBatch == 4

\* ------------------------------------------------------------ program constants
\* wait_table_ready(timeout_ms=10000) and the 10000 of click_next's poll loop
TIMEOUT_MS == 10000
\* step = 200 in both poll loops
STEP_MS == 200

\* ------------------------------------------------------------ sequences
\* s[n+1..] and s[..n]
Drop(s, n) == SubSeq(s, n + 1, Len(s))
Take(s, n) == SubSeq(s, 1, n)

\* Python's "needle in hay" on sequences: a contiguous occurrence.
Contains(hay, needle) ==
    \E i \in 0..(Len(hay) - Len(needle)) :
        SubSeq(hay, i + 1, i + Len(needle)) = needle

\* ------------------------------------------------------------ hrefs and selectors
\* "/portal/compras/contratoView"
DETAIL_URL_PART == <<"portal", "compras", "contratoView">>

\* the href*= value of ROW_DETAIL_LINK and ANY_DETAIL_LINK
ANY_DETAIL_LINK == <<"#", "palmeira", "portal", "compras", "contratoView">>

\* The detail link of row t.
DetailHref(t) == ANY_DETAIL_LINK \o <<ToString(t)>>

\* An anchor of the table view's DOM.
Anchor(h, vis) == [href |-> h, visible |-> vis]

\* Anchors the table view renders: the visible detail links and a hidden
\* duplicate of the first one (responsive markup).
AnchorPool ==
    {Anchor(DetailHref(t), TRUE) : t \in 1..NumTokens}
        \cup {Anchor(DetailHref(1), FALSE)}

\* page.locator(VISIBLE_ROW_LINK): the attached anchors that are visible and
\* whose href contains the detail path, in document order.
VISIBLE_ROW_LINK(dom) ==
    LET match(i) == dom[i].visible /\ Contains(dom[i].href, ANY_DETAIL_LINK)
        idx == {i \in 1..Len(dom) : match(i)}
        RECURSIVE pick(_)
        pick(i) == IF i > Len(dom) THEN <<>>
                   ELSE IF i \in idx THEN <<dom[i]>> \o pick(i + 1)
                   ELSE pick(i + 1)
    IN pick(1)

\* The DOM of a view: the anchors rendered so far.
Dom(v) == v.dom

RECURSIVE Join(_)
\* "|".join(hrefs)
Join(hrefs) ==
    IF hrefs = <<>> THEN <<>>
    ELSE IF Len(hrefs) = 1 THEN hrefs[1]
    ELSE hrefs[1] \o <<"|">> \o Join(Tail(hrefs))

RECURSIVE SigHrefs(_)
\* the hrefs page_signature keeps: filter(Boolean), then DETAIL_URL_PART in h
SigHrefs(as) ==
    IF as = <<>> THEN <<>>
    ELSE IF Head(as).href # <<>> /\ Contains(Head(as).href, DETAIL_URL_PART)
         THEN <<Head(as).href>> \o SigHrefs(Tail(as))
         ELSE SigHrefs(Tail(as))

page_signature(v) == Join(SigHrefs(VISIBLE_ROW_LINK(Dom(v))))

RECURSIVE collect_loop_unvisited(_, _, _)
\* collect_loop without the check against the visited set
collect_loop_unvisited(items, visitedSet, seen) ==
    IF items = <<>> THEN <<>>
    ELSE LET href == Head(items).href IN
         IF href = <<>> \/ ~Contains(href, DETAIL_URL_PART)
         THEN collect_loop_unvisited(Tail(items), visitedSet, seen)
         ELSE IF href \in seen
         THEN collect_loop_unvisited(Tail(items), visitedSet, seen)
         ELSE <<href>> \o collect_loop_unvisited(Tail(items), visitedSet, seen \cup {href})

RECURSIVE collect_loop_unseen(_, _, _)
\* collect_loop without the check against the seen set
collect_loop_unseen(items, visitedSet, seen) ==
    IF items = <<>> THEN <<>>
    ELSE LET href == Head(items).href IN
         IF href = <<>> \/ ~Contains(href, DETAIL_URL_PART)
         THEN collect_loop_unseen(Tail(items), visitedSet, seen)
         ELSE IF href \in visitedSet
         THEN collect_loop_unseen(Tail(items), visitedSet, seen)
         ELSE <<href>> \o collect_loop_unseen(Tail(items), visitedSet, seen \cup {href})

RECURSIVE collect_loop(_, _, _)
\* the for loop of collect_rows over items, with its seen set
collect_loop(items, visitedSet, seen) ==
    IF items = <<>> THEN <<>>
    ELSE LET href == Head(items).href IN
         IF href = <<>> \/ ~Contains(href, DETAIL_URL_PART)
         THEN collect_loop(Tail(items), visitedSet, seen)
         ELSE IF href \in visitedSet \/ href \in seen
         THEN collect_loop(Tail(items), visitedSet, seen)
         ELSE <<href>> \o collect_loop(Tail(items), visitedSet, seen \cup {href})

\* collect_rows(page, visited): the hrefs of the new rows, in render order
collect_rows(v, visitedSet) ==
    collect_loop(VISIBLE_ROW_LINK(Dom(v)), visitedSet, {})

\* ------------------------------------------------------------ field extractor
\* Text is a sequence of characters; markup is a sequence of characters and tags.
Ws == {" ", "\n", "\t"}
Digits == {"0", "1", "2", "3", "4", "5", "6", "7", "8", "9"}
\* [0-9./-]
ContractClass == Digits \cup {".", "/", "-"}
\* [\d.\,]
AmountClass == Digits \cup {".", ","}
Tags == {"<div>", "</div>", "<b>", "</b>", "<td>", "</td>"}

UpperCase == <<"A", "B", "C", "D", "E", "F", "G", "H", "I", "J", "K", "L", "M",
               "N", "O", "P", "Q", "R", "S", "T", "U", "V", "W", "X", "Y", "Z">>
LowerCase == <<"a", "b", "c", "d", "e", "f", "g", "h", "i", "j", "k", "l", "m",
               "n", "o", "p", "q", "r", "s", "t", "u", "v", "w", "x", "y", "z">>

\* re.I: characters compare by their lower case
Lower(c) ==
    IF \E i \in 1..26 : UpperCase[i] = c
    THEN LowerCase[CHOOSE i \in 1..26 : UpperCase[i] = c]
    ELSE c

\* Optional[str]
None == [some |-> FALSE, val |-> <<>>]
Some(s) == [some |-> TRUE, val |-> s]
\* Python truthiness of an Optional[str]
Truthy(o) == o.some /\ o.val # <<>>

\* Length of the longest run of characters of class cls starting at t[i].
RunLen(t, i, cls) ==
    CHOOSE n \in 0..(Len(t) - i + 1) :
        /\ \A k \in 0..(n - 1) : t[i + k] \in cls
        /\ (i + n > Len(t) \/ t[i + n] \notin cls)

\* The literal lit occurs at t[i], ignoring case.
LitAt(t, i, lit) ==
    /\ i + Len(lit) - 1 <= Len(t)
    /\ \A k \in 1..Len(lit) : Lower(t[i + k - 1]) = Lower(lit[k])

RECURSIVE SplitWs(_)
\* text.split(): the maximal runs of non-whitespace
SplitWs(t) ==
    IF t = <<>> THEN <<>>
    ELSE IF Head(t) \in Ws THEN SplitWs(Tail(t))
    ELSE LET n == RunLen(t, 1, {t[k] : k \in 1..Len(t)} \ Ws)
         IN <<Take(t, n)>> \o SplitWs(Drop(t, n))

RECURSIVE JoinSp(_)
\* " ".join(words)
JoinSp(words) ==
    IF words = <<>> THEN <<>>
    ELSE IF Len(words) = 1 THEN words[1]
    ELSE words[1] \o <<" ">> \o JoinSp(Tail(words))

\* Contrato\s+([0-9./-]{3,}) matched at position i of t: the group, or None
ContractAt(t, i) ==
    IF ~LitAt(t, i, <<"C", "o", "n", "t", "r", "a", "t", "o">>) THEN None
    ELSE LET p == i + 8
             w == RunLen(t, p, Ws)
             q == p + w
             n == RunLen(t, q, ContractClass)
         IN IF w >= 1 /\ n >= 3 THEN Some(SubSeq(t, q, q + n - 1)) ELSE None

\* Valor\s*total\s*R\$\s*([\d.\,]+) matched at position i of t: the group, or None
AmountAt(t, i) ==
    IF ~LitAt(t, i, <<"V", "a", "l", "o", "r">>) THEN None
    ELSE LET p1 == i + 5 + RunLen(t, i + 5, Ws) IN
         IF ~LitAt(t, p1, <<"t", "o", "t", "a", "l">>) THEN None
         ELSE LET p2 == p1 + 5 + RunLen(t, p1 + 5, Ws) IN
              IF ~LitAt(t, p2, <<"R", "$">>) THEN None
              ELSE LET q == p2 + 2 + RunLen(t, p2 + 2, Ws)
                       n == RunLen(t, q, AmountClass)
                   IN IF n >= 1 THEN Some(SubSeq(t, q, q + n - 1)) ELSE None

\* re.search: the match at the leftmost position that has one
Leftmost(hits) == CHOOSE i \in hits : \A j \in hits : i <= j

\* m1 = re.search(r"Contrato\s+([0-9./-]{3,})", t, re.I)
ContractSearch(t) ==
    LET hits == {i \in 1..Len(t) : ContractAt(t, i).some}
    IN IF hits = {} THEN None ELSE ContractAt(t, Leftmost(hits))

\* m2 = re.search(r"Valor\s*total\s*R\$\s*([\d.\,]+)", t, re.I)
AmountSearch(t) ==
    LET hits == {i \in 1..Len(t) : AmountAt(t, i).some}
    IN IF hits = {} THEN None ELSE AmountAt(t, Leftmost(hits))

\* _extract(text)
_extract(text) ==
    LET t == JoinSp(SplitWs(text))
    IN [contract |-> ContractSearch(t), amount |-> AmountSearch(t)]

RECURSIVE TextNodes(_)
\* the text nodes of a markup: the maximal runs of characters between tags
TextNodes(html) ==
    IF html = <<>> THEN <<>>
    ELSE IF Head(html) \in Tags THEN TextNodes(Tail(html))
    ELSE LET n == RunLen(html, 1, {html[k] : k \in 1..Len(html)} \ Tags)
         IN <<Take(html, n)>> \o TextNodes(Drop(html, n))

\* BeautifulSoup(html, "html.parser").get_text(" ")
GetText(html) == JoinSp(TextNodes(html))

\* A locator's inner_text(timeout=2500): the text, or PWTimeout
Read(s) == [timeout |-> FALSE, text |-> s]
ReadTimeout == [timeout |-> TRUE, text |-> <<>>]

\* extract_from_context returning the structured record as soon as it has
\* a contract
extract_from_context_contract_only(ctx) ==
    LET d == _extract(ctx.ct.text \o <<" ">> \o ctx.vt.text)
    IN IF ~ctx.ct.timeout /\ ~ctx.vt.timeout /\ Truthy(d.contract)
       THEN d
       ELSE _extract(GetText(ctx.html))

\* extract_from_context(ctx) for a container ctx = [ct, vt, html]: the
\* structured reads, then the markup fallback
extract_from_context(ctx) ==
    LET d == _extract(ctx.ct.text \o <<" ">> \o ctx.vt.text)
    IN IF ~ctx.ct.timeout /\ ~ctx.vt.timeout /\ Truthy(d.contract) /\ Truthy(d.amount)
       THEN d
       ELSE _extract(GetText(ctx.html))

\* ------------------------------------------------------------ sample texts
TxtContrato == <<"C", "o", "n", "t", "r", "a", "t", "o", " ",
                 "1", "2", "3", ".", "4", "5", "6", "-", "7">>
TxtValor == <<"V", "a", "l", "o", "r", " ", "t", "o", "t", "a", "l", " ",
              "R", "$", " ", "1", ".", "2", "3", "4", ",", "5", "6">>
TxtHeading == <<"D", "a", "d", "o", "s">>

\* The containers a detail view can offer to the extractor.
CtxStructured ==
    [ct |-> Read(TxtContrato), vt |-> Read(TxtValor), html |-> <<>>]
CtxMarkupOnly ==
    [ct |-> ReadTimeout, vt |-> ReadTimeout,
     html |-> <<"<div>">> \o TxtHeading \o <<"</div>", "<td>">> \o TxtContrato
              \o <<"</td>", "<td>">> \o TxtValor \o <<"</td>">>]
CtxNoAmount ==
    [ct |-> Read(TxtContrato), vt |-> ReadTimeout,
     html |-> <<"<div>">> \o TxtContrato \o <<"</div>">>]

DetailPool == {CtxStructured, CtxMarkupOnly, CtxNoAmount}

\* "Contrato 12": a number of fewer than three characters
TxtContratoShort == <<"C", "o", "n", "t", "r", "a", "t", "o", " ", "1", "2">>
\* "Valor total R$": the label without its number
TxtValorLabel == <<"V", "a", "l", "o", "r", " ", "t", "o", "t", "a", "l",
                   " ", "R", "$">>
\* the same fields with other values, other case and other spacing
TxtContratoOther == <<"C", "O", "N", "T", "R", "A", "T", "O", " ", " ", "9",
                      "9", "/", "2", "0", "2", "4">>
TxtValorOther == <<"v", "a", "l", "o", "r", " ", "t", "o", "t", "a", "l",
                   " ", "r", "$", "7", ",", "0", "0">>
ValContrato == <<"1", "2", "3", ".", "4", "5", "6", "-", "7">>
ValValor == <<"1", ".", "2", "3", "4", ",", "5", "6">>

\* The markup of a detail view showing the given texts in table cells.
Markup(texts) ==
    LET RECURSIVE cells(_)
        cells(ts) == IF ts = <<>> THEN <<>>
                     ELSE <<"<td>">> \o Head(ts) \o <<"</td>">> \o cells(Tail(ts))
    IN <<"<div>">> \o TxtHeading \o <<"</div>">> \o cells(texts)

\* extract_from_context on its own: every container whose two marked
\* elements time out or read one of a few texts, over one of a few markups.
ExtractReadsCt == {ReadTimeout, Read(TxtContrato), Read(TxtContratoShort), Read(TxtHeading)}
ExtractReadsVt == {ReadTimeout, Read(TxtValor), Read(TxtValorLabel)}
ExtractMarkups ==
    { <<>>,
      Markup(<<TxtContrato, TxtValor>>),
      Markup(<<TxtContrato>>),
      Markup(<<TxtValorLabel, TxtValor>>),
      Markup(<<TxtContratoOther, TxtValorOther>>) }
ExtractPool ==
    { [ct |-> c, vt |-> v, html |-> h] :
          c \in ExtractReadsCt, v \in ExtractReadsVt, h \in ExtractMarkups }

\* ------------------------------------------------------------ next control
ClsNext == <<"p", "a", "g", "i", "n", "a", "t", "i", "o", "n", "-", "n", "e", "x", "t">>
WordDisabled == <<"d", "i", "s", "a", "b", "l", "e", "d">>
WordTrue == <<"t", "r", "u", "e">>

\* str.lower()
LowerStr(s) == [i \in 1..Len(s) |-> Lower(s[i])]

\* page.locator(".pagination a.pagination-next").first: whether it matches
\* anything, and its class and aria-disabled attributes (None when not set).
Button(p, c, a) == [present |-> p, cls |-> c, aria |-> a]
ButtonPool ==
    { Button(FALSE, None, None),
      Button(TRUE, Some(ClsNext), None),
      Button(TRUE, Some(ClsNext \o <<" ">> \o WordDisabled), None),
      Button(TRUE, Some(ClsNext \o <<" ", "D">> \o Tail(WordDisabled)), None),
      Button(TRUE, Some(ClsNext), Some(WordTrue)),
      Button(TRUE, Some(ClsNext), Some(WordDisabled)) }

\* x or ""
OrEmpty(o) == IF Truthy(o) THEN o.val ELSE <<>>

\* IsDisabled looking at the class only
IsDisabledClassOnly(b) == Contains(LowerStr(OrEmpty(b.cls)), WordDisabled)

\* "disabled" in cls or aria in ("true", "disabled")
IsDisabled(b) ==
    LET cls == LowerStr(OrEmpty(b.cls))
        aria == LowerStr(OrEmpty(b.aria))
    IN Contains(cls, WordDisabled) \/ aria \in {WordTrue, WordDisabled}

\* json.dumps(item, ensure_ascii=False) + "\n" for a record of two strings
JsonStr(o) == IF o.some THEN <<"\"">> \o o.val \o <<"\"">> ELSE <<"null">>
JsonLine(d) ==
    <<"{", "\"contract\": ">> \o JsonStr(d.contract)
        \o <<", ", "\"amount\": ">> \o JsonStr(d.amount) \o <<"}", "\n">>

\* ------------------------------------------------------------ state
VARIABLES
    pc,          \* where the crawl is
    view,        \* the table view: [dom, pendingNav]
    navs,        \* pages the view has shown so far
    visited,     \* scrape's visited set
    stash,       \* scrape's stash
    rows,        \* process_current_table's rows
    idx,         \* index in rows of the row being processed
    openViews,   \* detail views open in the browser context
    fetch,       \* result of the detail fetch in progress: [ok, details, err]
    wtrCaller,   \* who called wait_table_ready: "process" or "advance"
    waited,      \* the waited counter of the running poll loop
    cn,          \* click_next's frame: [prevSig, sig, btn, looked, clicked, polled]
    output,      \* contracts.jsonl: [written, lines]
    crash,       \* the exception that ended the run, "" if none
    fetched,     \* history: hrefs passed to open_details_and_extract
    outcomes,    \* history: the result of each finished fetch
    advances,    \* history: click_next's return values
    before,      \* history: the rows visible when click_next was called
    site         \* the table the view shows: free, or a scripted site

vars == <<pc, view, navs, visited, stash, rows, idx, openViews, fetch, wtrCaller,
          waited, cn, output, crash, fetched, outcomes, advances, before, site>>

NoDetails == [contract |-> None, amount |-> None]
NoFetch == [ok |-> FALSE, details |-> NoDetails, err |-> ""]
Failed(what) == [ok |-> FALSE, details |-> NoDetails, err |-> what]
NoButton == Button(FALSE, None, None)
CnInit == [prevSig |-> <<>>, sig |-> <<>>, btn |-> NoButton,
           looked |-> FALSE, clicked |-> FALSE, polled |-> FALSE]

\* ------------------------------------------------------------ the site
\* The table behind START_URL is either free (any anchor of AnchorPool may
\* render at any read, any control of ButtonPool may be found, any
\* container of DetailPool may be shown) or scripted: a sequence of pages,
\* each with its anchors and its next control, the container of each row's
\* detail view, whether the control of the last page leads back to the
\* first page, and whether a page's anchors render one by one or at once.
FreeSite == [mode |-> "free"]

Link(t) == Anchor(DetailHref(t), TRUE)
EnabledNext == Button(TRUE, Some(ClsNext), None)
SiteTokens == 1..4
TokenOf(h) == CHOOSE t \in SiteTokens : DetailHref(t) = h

\* The anchors of the pages of the scripted sites: three rows then one;
\* a row repeated and hidden on page 1 and shown again on page 2; a single
\* page; two pages showing the same row.
SiteDoms ==
    { << <<Link(1), Link(2), Link(3)>>, <<Link(4)>> >>,
      << <<Link(1), Anchor(DetailHref(1), FALSE), Link(1)>>, <<Link(1), Link(2)>> >>,
      << <<Link(1), Link(2)>> >>,
      << <<Link(1)>>, <<Link(1)>> >> }

\* The detail views: the rows in missing show no amount, the others show
\* both fields, in marked elements or in plain markup.
SiteDetails(missing) ==
    [t \in SiteTokens |->
        IF t \in missing THEN CtxNoAmount
        ELSE IF t % 2 = 1 THEN CtxStructured ELSE CtxMarkupOnly]

SitePages(doms, last) ==
    [i \in 1..Len(doms) |->
        [dom |-> doms[i], next |-> IF i < Len(doms) THEN EnabledNext ELSE last]]

Sites ==
    LET all == { [mode |-> "scripted", pages |-> SitePages(d, b),
                  details |-> SiteDetails(m), wrap |-> w, progressive |-> g] :
                     d \in SiteDoms, b \in ButtonPool,
                     m \in {{}, {1}, {2}, {3}}, w \in BOOLEAN, g \in BOOLEAN }
    IN {s \in all : /\ s.wrap => s.pages[Len(s.pages)].next = EnabledNext
                    /\ s.progressive =>
                           /\ s.details = SiteDetails({})
                           /\ ~s.wrap
                           /\ s.pages[Len(s.pages)].next.aria \in {None, Some(WordTrue)}
                           /\ s.pages[Len(s.pages)].next.cls = Some(ClsNext)}

Scripted == site.mode = "scripted"

\* The controls the lookup of click_next can find on the page shown.
Buttons == IF Scripted THEN {site.pages[navs].next} ELSE ButtonPool

\* The containers the detail view of rows[idx] can offer.
Details ==
    IF Scripted THEN {site.details[TokenOf(rows[idx])]}
    ELSE IF site.mode = "probe" THEN {site.ctx}
    ELSE DetailPool

\* What page.goto(START_URL) leaves in the view.
FirstDom == IF Scripted /\ ~site.progressive THEN site.pages[1].dom ELSE <<>>

\* The effect of a click on an enabled next control.  A free view will be
\* re-rendered later (EnvSwitch); a scripted site shows its next page (the
\* first one after the last when it wraps around), rendered at once or
\* starting empty, and is left as it is by a click on its last page.
Click ==
    IF Scripted
    THEN IF navs < Len(site.pages) \/ site.wrap
         THEN LET n == IF navs < Len(site.pages) THEN navs + 1 ELSE 1 IN
              /\ navs' = n
              /\ view' = [dom |-> IF site.progressive THEN <<>> ELSE site.pages[n].dom,
                          pendingNav |-> FALSE]
         ELSE UNCHANGED <<view, navs>>
    ELSE view' = [view EXCEPT !.pendingNav = TRUE] /\ UNCHANGED navs

\* The history of click_next's returns, extended by r.
Advanced(r) ==
    IF Scripted /\ Len(advances) >= MaxAdvances THEN advances
    ELSE Append(advances, r)

InitCrawl ==
    /\ pc = "loading"
    /\ view = [dom |-> <<>>, pendingNav |-> FALSE]
    /\ navs = 0
    /\ visited = {}
    /\ stash = <<>>
    /\ rows = <<>>
    /\ idx = 0
    /\ openViews = 0
    /\ fetch = NoFetch
    /\ wtrCaller = "process"
    /\ waited = 0
    /\ cn = CnInit
    /\ output = [written |-> FALSE, lines |-> <<>>]
    /\ crash = ""
    /\ fetched = <<>>
    /\ outcomes = <<>>
    /\ advances = <<>>
    /\ before = <<>>

Init == InitCrawl /\ site = FreeSite

\* The crawl of a scripted site.
InitSite == InitCrawl /\ site \in Sites

\* collect_rows on its own: any page of up to MaxBatch anchors (with an
\* empty href, another link of the portal, detail links, a hidden one) and
\* any visited set, at the call of collect_rows on the first page.
ProbeSite == [mode |-> "probe"]
EnumAnchors ==
    { Anchor(<<>>, TRUE),
      Anchor(<<"#", "palmeira", "portal", "home">>, TRUE),
      Link(1), Link(2),
      Anchor(DetailHref(2), FALSE) }
EnumDoms == UNION {[1..n -> EnumAnchors] : n \in 0..MaxBatch}

InitEnum ==
    /\ pc = "collect"
    /\ \E d \in EnumDoms : view = [dom |-> d, pendingNav |-> FALSE]
    /\ navs = 1
    /\ visited \in SUBSET {DetailHref(1), DetailHref(2)}
    /\ stash = <<>>
    /\ rows = <<>>
    /\ idx = 0
    /\ openViews = 0
    /\ fetch = NoFetch
    /\ wtrCaller = "process"
    /\ waited = 0
    /\ cn = CnInit
    /\ output = [written |-> FALSE, lines |-> <<>>]
    /\ crash = ""
    /\ fetched = <<>>
    /\ outcomes = <<>>
    /\ advances = <<>>
    /\ before = <<>>
    /\ site = ProbeSite

\* An exception leaves scrape: nothing after the loop runs.
Raise(what) == pc' = "crashed" /\ crash' = what

\* ------------------------------------------------------------ the table view
\* The view is read by the polls, by collect_rows and by click_next; it
\* changes while the crawl waits before one of these reads.
Reading == pc \in {"wtr", "collect", "advance", "cn_poll"}

\* The view renders one more anchor of the page it shows.
EnvRender ==
    /\ site.mode = "free"
    /\ Reading
    /\ Len(view.dom) < MaxRows
    /\ \E a \in AnchorPool : view' = [view EXCEPT !.dom = Append(view.dom, a)]
    /\ UNCHANGED <<pc, navs, visited, stash, rows, idx, openViews, fetch, wtrCaller,
                   waited, cn, output, crash, fetched, outcomes, advances, before>>
    /\ UNCHANGED site

\* A click on the next control takes effect: the table is re-rendered in
\* place for another page, starting empty.
EnvSwitch ==
    /\ site.mode = "free"
    /\ Reading
    /\ view.pendingNav
    /\ navs < MaxPages
    /\ view' = [dom |-> <<>>, pendingNav |-> FALSE]
    /\ navs' = navs + 1
    /\ UNCHANGED <<pc, visited, stash, rows, idx, openViews, fetch, wtrCaller,
                   waited, cn, output, crash, fetched, outcomes, advances, before>>
    /\ UNCHANGED site

\* A scripted site that renders progressively shows the next anchor of the
\* page it is on.
SiteRender ==
    /\ Scripted
    /\ site.progressive
    /\ Reading
    /\ Len(view.dom) < Len(site.pages[navs].dom)
    /\ view' = [view EXCEPT
                   !.dom = Append(view.dom, site.pages[navs].dom[Len(view.dom) + 1])]
    /\ UNCHANGED <<pc, navs, visited, stash, rows, idx, openViews, fetch, wtrCaller,
                   waited, cn, output, crash, fetched, outcomes, advances, before>>
    /\ UNCHANGED site

\* ------------------------------------------------------------ scrape
\* page.goto(START_URL, wait_until="domcontentloaded")
Load ==
    /\ pc = "loading"
    /\ \/ /\ view' = [dom |-> FirstDom, pendingNav |-> FALSE]
          /\ navs' = 1
          /\ pc' = "process"
          /\ UNCHANGED crash
       \/ /\ Raise("goto")
          /\ UNCHANGED <<view, navs>>
    /\ UNCHANGED <<visited, stash, rows, idx, openViews, fetch, wtrCaller, waited,
                   cn, output, fetched, outcomes, advances, before>>
    /\ UNCHANGED site

\* The loop body calls process_current_table, which calls wait_table_ready.
ProcessPage ==
    /\ pc = "process"
    /\ pc' = "wtr"
    /\ wtrCaller' = "process"
    /\ waited' = 0
    /\ cn' = CnInit
    /\ before' = <<>>
    /\ UNCHANGED <<view, navs, visited, stash, rows, idx, openViews, fetch,
                   output, crash, fetched, outcomes, advances>>
    /\ UNCHANGED site

\* wait_table_ready returns to its caller (its frame, with waited, is gone):
\* process_current_table goes on to collect_rows, click_next returns True
\* and the loop starts the next page.
WtrReturn ==
    /\ waited' = 0
    /\ IF wtrCaller = "process"
       THEN pc' = "collect" /\ UNCHANGED advances
       ELSE pc' = "process" /\ advances' = Advanced(TRUE)

\* WtrPoll with the loop test waited <= timeout_ms: one poll too many
WtrPollOffByOne ==
    /\ pc = "wtr"
    /\ waited <= TIMEOUT_MS
    /\ IF Len(VISIBLE_ROW_LINK(Dom(view))) > 0
       THEN WtrReturn
       ELSE waited' = waited + STEP_MS /\ UNCHANGED <<pc, advances>>
    /\ UNCHANGED <<view, navs, visited, stash, rows, idx, openViews, fetch,
                   wtrCaller, cn, output, crash, fetched, outcomes, before>>
    /\ UNCHANGED site

\* One iteration of wait_table_ready's loop.
WtrPoll ==
    /\ pc = "wtr"
    /\ waited < TIMEOUT_MS
    /\ IF Len(VISIBLE_ROW_LINK(Dom(view))) > 0
       THEN WtrReturn
       ELSE waited' = waited + STEP_MS /\ UNCHANGED <<pc, advances>>
    /\ UNCHANGED <<view, navs, visited, stash, rows, idx, openViews, fetch,
                   wtrCaller, cn, output, crash, fetched, outcomes, before>>
    /\ UNCHANGED site

\* The budget is spent: page.wait_for_selector("table tbody", timeout=4000),
\* which returns when the table body is there and raises PWTimeout when not.
WtrFallback ==
    /\ pc = "wtr"
    /\ waited >= TIMEOUT_MS
    /\ \/ WtrReturn /\ UNCHANGED crash
       \/ Raise("table_timeout") /\ UNCHANGED <<advances, waited>>
    /\ UNCHANGED <<view, navs, visited, stash, rows, idx, openViews, fetch,
                   wtrCaller, cn, output, fetched, outcomes, before>>
    /\ UNCHANGED site

\* Collect with collect_rows adding the rows it returns to visited
CollectMarking ==
    /\ pc = "collect"
    /\ rows' = collect_rows(view, visited)
    /\ visited' = visited \cup {rows'[i] : i \in 1..Len(rows')}
    /\ IF rows' = <<>>
       THEN pc' = "advance" /\ idx' = 0
       ELSE pc' = "fetch" /\ idx' = 1
    /\ UNCHANGED <<view, navs, stash, openViews, fetch, wtrCaller, waited,
                   cn, output, crash, fetched, outcomes, advances, before>>
    /\ UNCHANGED site

\* rows = await collect_rows(page, visited); if not rows: return
Collect ==
    /\ pc = "collect"
    /\ rows' = collect_rows(view, visited)
    /\ IF rows' = <<>>
       THEN pc' = "advance" /\ idx' = 0
       ELSE pc' = "fetch" /\ idx' = 1
    /\ UNCHANGED <<view, navs, visited, stash, openViews, fetch, wtrCaller, waited,
                   cn, output, crash, fetched, outcomes, advances, before>>
    /\ UNCHANGED site

\* ------------------------------------------------------------ one row
\* Stashable asking for the contract only
StashableContractOnly(d) == Truthy(d.contract)

\* details.get("contract") and details.get("amount")
Stashable(d) == Truthy(d.contract) /\ Truthy(d.amount)

\* RowEnd with visited.add(href) in the try block, after the stash.append,
\* instead of in the finally clause
RowEndMarkInTry(res) ==
    /\ stash' = IF res.ok /\ Stashable(res.details)
                THEN Append(stash, res.details) ELSE stash
    /\ visited' = IF res.ok THEN visited \cup {rows[idx]} ELSE visited
    /\ outcomes' = Append(outcomes, [ok |-> res.ok, details |-> res.details])
    /\ fetch' = NoFetch
    /\ IF ~res.ok THEN Raise(res.err) /\ UNCHANGED idx
       ELSE IF idx < Len(rows) THEN pc' = "fetch" /\ idx' = idx + 1 /\ UNCHANGED crash
       ELSE pc' = "advance" /\ UNCHANGED <<idx, crash>>

\* What follows the call of open_details_and_extract for rows[idx], which
\* returned a record (res.ok) or raised res.err: the stash.append of a
\* complete record, the finally clause visited.add(href), then the next
\* row, the end of the page, or the exception going on up.
RowEnd(res) ==
    /\ stash' = IF res.ok /\ Stashable(res.details)
                THEN Append(stash, res.details) ELSE stash
    /\ visited' = visited \cup {rows[idx]}
    /\ outcomes' = Append(outcomes, [ok |-> res.ok, details |-> res.details])
    /\ fetch' = NoFetch
    /\ IF ~res.ok THEN Raise(res.err) /\ UNCHANGED idx
       ELSE IF idx < Len(rows) THEN pc' = "fetch" /\ idx' = idx + 1 /\ UNCHANGED crash
       ELSE pc' = "advance" /\ UNCHANGED <<idx, crash>>

\* open_details_and_extract(page, href) up to context.new_page(), which
\* opens the detail view or raises.
FetchOpen ==
    /\ pc = "fetch"
    /\ fetched' = Append(fetched, rows[idx])
    /\ \/ /\ openViews' = openViews + 1
          /\ pc' = "detail"
          /\ UNCHANGED <<stash, visited, outcomes, fetch, idx, crash>>
       \/ /\ RowEnd(Failed("new_page"))
          /\ UNCHANGED openViews
    /\ UNCHANGED <<view, navs, rows, wtrCaller, waited, cn, output, advances, before>>
    /\ UNCHANGED site

\* The try block: goto, the two marker waits (their timeouts are caught),
\* pick_ctx and extract_from_context on the container it picked; or one of
\* them raises.
FetchBody ==
    /\ pc = "detail"
    /\ \/ fetch' = Failed("detail")
       \/ \E ctx \in Details :
              fetch' = [ok |-> TRUE, details |-> extract_from_context(ctx), err |-> ""]
    /\ pc' = "close"
    /\ UNCHANGED <<view, navs, visited, stash, rows, idx, openViews, wtrCaller,
                   waited, cn, output, crash, fetched, outcomes, advances, before>>
    /\ UNCHANGED site

\* FetchClose without the finally: dp.close() only after a normal return
FetchCloseNoFinally ==
    /\ pc = "close"
    /\ \/ /\ openViews' = IF fetch.ok THEN openViews - 1 ELSE openViews
          /\ RowEnd(fetch)
       \/ /\ fetch.ok
          /\ openViews' \in {openViews, openViews - 1}
          /\ RowEnd(Failed("close"))
    /\ UNCHANGED <<view, navs, rows, wtrCaller, waited, cn, output, fetched,
                   advances, before>>
    /\ UNCHANGED site

\* finally: await dp.close(), then the caller's part of the row.  A close
\* that raises may or may not have closed the view.
FetchClose ==
    /\ pc = "close"
    /\ \/ /\ openViews' = openViews - 1
          /\ RowEnd(fetch)
       \/ /\ openViews' \in {openViews, openViews - 1}
          /\ RowEnd(Failed("close"))
    /\ UNCHANGED <<view, navs, rows, wtrCaller, waited, cn, output, fetched,
                   advances, before>>
    /\ UNCHANGED site

\* ------------------------------------------------------------ click_next
\* click_next returns False: the loop breaks.
ReturnFalse ==
    /\ pc' = "write"
    /\ advances' = Advanced(FALSE)

\* prev_sig = await page_signature(page), the scroll to the bottom
CnStart ==
    /\ pc = "advance"
    /\ cn' = [CnInit EXCEPT !.prevSig = page_signature(view)]
    /\ before' = VISIBLE_ROW_LINK(Dom(view))
    /\ pc' = "cn_button"
    /\ UNCHANGED <<view, navs, visited, stash, rows, idx, openViews, fetch,
                   wtrCaller, waited, output, crash, fetched, outcomes, advances>>
    /\ UNCHANGED site

\* The next control is looked up and checked; an enabled one is clicked, by
\* btn.click() or, when that raises, by el.click() in the page, which may
\* raise too.
CnButton ==
    /\ pc = "cn_button"
    /\ \E b \in Buttons :
        IF ~b.present \/ IsDisabled(b)
        THEN /\ cn' = [cn EXCEPT !.btn = b, !.looked = TRUE]
             /\ ReturnFalse
             /\ UNCHANGED <<view, navs, waited, crash>>
        ELSE /\ cn' = [cn EXCEPT !.btn = b, !.looked = TRUE, !.clicked = TRUE]
             /\ \/ /\ Click
                   /\ waited' = 0
                   /\ pc' = "cn_poll"
                   /\ UNCHANGED <<crash, advances>>
                \/ /\ Raise("click")
                   /\ UNCHANGED <<view, navs, waited, advances>>
    /\ UNCHANGED <<visited, stash, rows, idx, openViews, fetch, wtrCaller,
                   output, fetched, outcomes, before>>
    /\ UNCHANGED site

\* Changed without the test that sig is not empty
ChangedAnyDifference(sig, prev_sig) == sig # prev_sig

\* Changed without the comparison with prev_sig
ChangedNonEmpty(sig, prev_sig) == sig # <<>>

\* if sig and sig != prev_sig
Changed(sig, prev_sig) == sig # <<>> /\ sig # prev_sig

\* One iteration of the signature loop; on a change, the scroll to the top
\* and the call of wait_table_ready.
CnPoll ==
    /\ pc = "cn_poll"
    /\ waited < TIMEOUT_MS
    /\ LET sig == page_signature(view) IN
        /\ cn' = [cn EXCEPT !.sig = sig, !.polled = TRUE]
        /\ IF Changed(sig, cn.prevSig)
           THEN pc' = "wtr" /\ wtrCaller' = "advance" /\ waited' = 0
           ELSE waited' = waited + STEP_MS /\ UNCHANGED <<pc, wtrCaller>>
    /\ UNCHANGED <<view, navs, visited, stash, rows, idx, openViews, fetch, output,
                   crash, fetched, outcomes, advances, before>>
    /\ UNCHANGED site

\* CnTimeout giving up after 1000 ms
CnTimeoutShort ==
    /\ pc = "cn_poll"
    /\ waited >= 1000
    /\ ReturnFalse
    /\ UNCHANGED <<view, navs, visited, stash, rows, idx, openViews, fetch,
                   wtrCaller, waited, cn, output, crash, fetched, outcomes, before>>
    /\ UNCHANGED site

\* The loop ran out: if not changed: return False
CnTimeout ==
    /\ pc = "cn_poll"
    /\ waited >= TIMEOUT_MS
    /\ ReturnFalse
    /\ UNCHANGED <<view, navs, visited, stash, rows, idx, openViews, fetch,
                   wtrCaller, waited, cn, output, crash, fetched, outcomes, before>>
    /\ UNCHANGED site

\* ------------------------------------------------------------ the output
\* Write inside the loop, after each page
WriteInLoop ==
    /\ pc \in {"write", "advance"}
    /\ output' = [written |-> TRUE,
                  lines |-> [i \in 1..Len(stash) |-> JsonLine(stash[i])]]
    /\ pc' = IF pc = "write" THEN "done" ELSE pc
    /\ cn' = CnInit
    /\ before' = <<>>
    /\ UNCHANGED <<view, navs, visited, stash, rows, idx, openViews, fetch,
                   wtrCaller, waited, crash, fetched, outcomes, advances>>
    /\ UNCHANGED site

\* After the loop: one line per item of the stash.
Write ==
    /\ pc = "write"
    /\ output' = [written |-> TRUE,
                  lines |-> [i \in 1..Len(stash) |-> JsonLine(stash[i])]]
    /\ pc' = "done"
    /\ cn' = CnInit
    /\ before' = <<>>
    /\ UNCHANGED <<view, navs, visited, stash, rows, idx, openViews, fetch,
                   wtrCaller, waited, crash, fetched, outcomes, advances>>
    /\ UNCHANGED site

Next ==
    \/ Load
    \/ ProcessPage
    \/ WtrPoll
    \/ WtrFallback
    \/ Collect
    \/ FetchOpen
    \/ FetchBody
    \/ FetchClose
    \/ CnStart
    \/ CnButton
    \/ CnPoll
    \/ CnTimeout
    \/ Write
    \/ EnvRender
    \/ EnvSwitch

Spec == Init /\ [][Next]_vars

\* The steps of the crawl itself: the one task of scrape, which runs on
\* whenever it can.
Crawl ==
    \/ Load
    \/ ProcessPage
    \/ WtrPoll
    \/ WtrFallback
    \/ Collect
    \/ FetchOpen
    \/ FetchBody
    \/ FetchClose
    \/ CnStart
    \/ CnButton
    \/ CnPoll
    \/ CnTimeout
    \/ Write

\* The detail view of the first row of a page is open and shows one of the
\* containers of ExtractPool.
InitExtract ==
    /\ pc = "detail"
    /\ view = [dom |-> <<Link(1)>>, pendingNav |-> FALSE]
    /\ navs = 1
    /\ visited = {}
    /\ stash = <<>>
    /\ rows = <<DetailHref(1)>>
    /\ idx = 1
    /\ openViews = 1
    /\ fetch = NoFetch
    /\ wtrCaller = "process"
    /\ waited = 0
    /\ cn = CnInit
    /\ output = [written |-> FALSE, lines |-> <<>>]
    /\ crash = ""
    /\ fetched = <<DetailHref(1)>>
    /\ outcomes = <<>>
    /\ advances = <<>>
    /\ before = <<>>
    /\ \E c \in ExtractPool : site = [mode |-> "probe", ctx |-> c]

\* extract_from_context applied to the container drawn by InitExtract.
SpecExtract == InitExtract /\ [][FetchBody]_vars

\* collect_rows applied to the page and visited set drawn by InitEnum.
SpecEnum == InitEnum /\ [][Collect]_vars

NextSite ==
    \/ Load
    \/ ProcessPage
    \/ WtrPoll
    \/ WtrFallback
    \/ Collect
    \/ FetchOpen
    \/ FetchBody
    \/ FetchClose
    \/ CnStart
    \/ CnButton
    \/ CnPoll
    \/ CnTimeout
    \/ Write
    \/ SiteRender

\* The crawl of a scripted site; the crawl's task is never suspended for
\* ever while it has a step to take.
SpecSite == InitSite /\ [][NextSite]_vars /\ WF_vars(Crawl)

\* ------------------------------------------------------------ properties
Last(s) == s[Len(s)]
Visible == VISIBLE_ROW_LINK(Dom(view))

\* click_next has just returned True / False
JustAdvanced == pc = "process" /\ wtrCaller = "advance"
JustStopped == pc = "write"

\* The records of the finished fetches that returned both fields, in order.
CompleteRecords ==
    LET both(o) == o.ok /\ o.details.contract.some /\ o.details.amount.some
        kept == SelectSeq(outcomes, both)
    IN [i \in 1..Len(kept) |-> kept[i].details]

\* C1: no href is passed to open_details_and_extract more than once in a
\* run: the sequence of fetched hrefs has no duplicates.
C1_Dedup ==
    \A i, j \in 1..Len(fetched) : i # j => fetched[i] # fetched[j]

\* A later page shows links of which collect_rows dropped some (repeated in
\* the batch or already visited), and a fetch of that page is under way.
C1_Witness ==
    /\ pc = "detail"
    /\ navs >= 2
    /\ Len(fetched) >= 2
    /\ Len(Visible) > Len(rows)

\* C2: a failure of the detail fetch of one row does not abort the run.
C2_RowFailureContained == crash \notin {"new_page", "detail", "close"}

\* C3: the stash holds exactly the records of the fetched rows whose
\* contract and amount were both present, each once, in fetch order.
C3_StashComplete == stash = CompleteRecords

\* Rows with and without both fields have been fetched.
C3_Witness ==
    /\ Len(stash) >= 1
    /\ \E i \in 1..Len(outcomes) :
           outcomes[i].ok /\ ~outcomes[i].details.amount.some

\* C4 as stated: when click_next returns True, the signature before the
\* call and the signature after it differ and both are non-empty.
C4_Original ==
    JustAdvanced =>
        /\ cn.prevSig # <<>>
        /\ page_signature(view) # <<>>
        /\ page_signature(view) # cn.prevSig

\* C4 amended: when click_next returns True, the signature seen by its
\* last poll is non-empty and differs from the signature before the click
\* (which may be empty).
C4_ConfirmingPoll ==
    JustAdvanced => cn.polled /\ cn.sig # <<>> /\ cn.sig # cn.prevSig

\* click_next returned True from an empty signature before the click.
C4_Witness == JustAdvanced /\ cn.prevSig = <<>> /\ cn.sig # <<>>

\* C5 as stated: when click_next returns False, the rows visible after the
\* call are the rows visible before it.
C5_Original == JustStopped => Visible = before

\* C5 amended: when click_next returns False, either it made no click (the
\* control was absent or disabled), or it clicked, polled until the budget
\* of 10000 ms was spent, and its last poll saw a signature that was empty
\* or equal to the one before the click.
C5_NoAdvanceSeen ==
    JustStopped =>
        \/ ~cn.clicked /\ ~cn.polled
        \/ /\ cn.clicked /\ cn.polled
           /\ waited >= TIMEOUT_MS
           /\ cn.sig \in {<<>>, cn.prevSig}

\* click_next returned False after a click, and the view no longer shows
\* the rows it showed before.
C5_Witness == JustStopped /\ cn.clicked /\ Visible # before

\* C6: wait_table_ready never raises on timeout.
C6_NeverRaises == crash # "table_timeout"

\* C7: at most one detail view is open; none is open between rows, while
\* advancing or after the crawl, nor after a fetch that raised before its
\* close.
C7_ViewsClosed ==
    /\ openViews \in {0, 1}
    /\ pc \notin {"detail", "close", "crashed"} => openViews = 0
    /\ crash \in {"new_page", "detail"} => openViews = 0

\* A second row is about to be fetched after an incomplete first one, with
\* no view left open.
C7_Witness ==
    /\ pc = "fetch"
    /\ idx = 2
    /\ ~Stashable(outcomes[Len(outcomes)].details)

\* C8: an href enters visited when its fetch has ended, not before: visited
\* is the set of hrefs of the finished fetches, the row being fetched is
\* not in it and the rows before it are.
C8_VisitedAfterFetch ==
    /\ visited = {fetched[i] : i \in 1..Len(outcomes)}
    /\ pc \in {"fetch", "detail", "close"} =>
           /\ rows[idx] \notin visited
           /\ \A j \in 1..(idx - 1) : rows[j] \in visited

\* The fetch of one row raised: the run ended with that row visited.
C8_Witness ==
    /\ crash = "detail"
    /\ Len(outcomes) >= 2
    /\ Last(fetched) \in visited

\* C9: the output is written only after click_next returned False, and it
\* is the stash, one line per record in order, the records being those of
\* the fetched rows with both fields.
C9_OutputAfterCrawl ==
    /\ output.written =>
           /\ pc = "done"
           /\ advances # <<>> /\ Last(advances) = FALSE
           /\ Len(output.lines) = Len(stash)
           /\ \A i \in 1..Len(stash) : output.lines[i] = JsonLine(stash[i])
           /\ stash = CompleteRecords
    /\ ~output.written => output.lines = <<>>

\* The output of a crawl over two pages holds a record; another row was
\* incomplete.
C9_Witness ==
    /\ output.written
    /\ Len(output.lines) >= 1
    /\ Len(outcomes) > Len(stash)
    /\ Len(advances) >= 2

\* The next control is absent, has a disabled class token or has
\* aria-disabled "true" or "disabled".
TerminalControl(b) ==
    \/ ~b.present
    \/ b.cls.some /\ Contains(b.cls.val, WordDisabled)
    \/ b.aria.some /\ b.aria.val \in {WordTrue, WordDisabled}

\* C10: with such a control, click_next returns False without a click and
\* without a poll of the signature.
C10_TerminalDetection ==
    cn.looked /\ TerminalControl(cn.btn) =>
        /\ JustStopped
        /\ Last(advances) = FALSE
        /\ ~cn.clicked
        /\ ~cn.polled

\* click_next found a control with aria-disabled "true".
C10_Witness ==
    /\ cn.looked
    /\ cn.btn.present
    /\ cn.btn.aria = Some(WordTrue)
    /\ JustStopped

\* C11 as stated: a second collect_rows on the same view, straight after
\* the first (the first row's fetch has not begun, nothing was visited in
\* between), returns no row.
C11_Original ==
    (pc = "fetch" /\ idx = 1) => collect_rows(view, visited) = <<>>

\* C11 amended: once process_current_table has fetched every row of the
\* batch collect_rows returned (each is then in visited), collect_rows on
\* the same view returns no row.
C11_EmptyAfterProcessing ==
    [][(pc \in {"fetch", "close"} /\ pc' = "advance") =>
           /\ view' = view
           /\ collect_rows(view', visited') = <<>>]_vars

\* The rows of a batch of two have been fetched, the view still shows their
\* links and collect_rows has nothing left to return.
C11_Witness ==
    /\ pc = "advance"
    /\ Len(rows) = 2
    /\ \A i \in 1..2 : \E j \in 1..Len(Visible) : Visible[j].href = rows[i]
    /\ collect_rows(view, visited) = <<>>

\* The polls a waiting loop has made: each adds step_ms to waited.
Polls == waited \div STEP_MS

\* C12: the loop of wait_table_ready and the signature loop of click_next
\* make at most 50 polls each, whatever the view does: the count never
\* exceeds 50, and after the 50th poll the next step of the crawl leaves
\* the loop.
C12_BoundedPolls ==
    /\ [](waited = Polls * STEP_MS /\ Polls <= 50)
    /\ [][(pc \in {"wtr", "cn_poll"} /\ Polls = 50 /\ view' = view) =>
              pc' \notin {"wtr", "cn_poll"}]_vars

\* wait_table_ready has made its 50 polls and the view never showed a row.
C12_Witness ==
    /\ pc = "wtr"
    /\ wtrCaller = "process"
    /\ Polls = 50
    /\ Visible = <<>>

\* The scripted site shows both fields in the detail view of row t.
Extractable(t) ==
    LET d == extract_from_context(site.details[t])
    IN d.contract.some /\ d.amount.some

\* The scenario: two pages rendered at once, rows 1, 2, 3 then row 4, one
\* of the first three rows without an amount, no way back to page 1.
EndToEndSite ==
    /\ Scripted
    /\ Len(site.pages) = 2
    /\ site.pages[1].dom = <<Link(1), Link(2), Link(3)>>
    /\ site.pages[2].dom = <<Link(4)>>
    /\ ~site.progressive
    /\ ~site.wrap
    /\ Cardinality({t \in 1..3 : Extractable(t)}) = 2
    /\ Extractable(4)

\* C13: on that site a run that ends has fetched the four rows, written
\* the records of the three extractable ones in row order, and called
\* click_next twice, which returned True then False; a run is cut short
\* only by a failing driver call.
C13_EndToEnd ==
    EndToEndSite =>
        /\ pc = "done" =>
               /\ Len(output.lines) = 3
               /\ LET ok(t) == Extractable(t)
                      kept == SelectSeq(<<1, 2, 3, 4>>, ok)
                  IN output.lines =
                         [i \in 1..Len(kept) |->
                             JsonLine(extract_from_context(site.details[kept[i]]))]
               /\ Cardinality(visited) = 4
               /\ fetched = <<DetailHref(1), DetailHref(2), DetailHref(3), DetailHref(4)>>
               /\ advances = <<TRUE, FALSE>>
        /\ pc = "crashed" => crash \in {"goto", "new_page", "detail", "close", "click"}

\* The run on the scenario's site has ended; row 2 was the one without an
\* amount and the last page's control was enabled but led nowhere.
C13_Witness ==
    /\ EndToEndSite
    /\ pc = "done"
    /\ ~Extractable(2)
    /\ site.pages[2].next = EnabledNext
    /\ Len(output.lines) = 3

\* The hrefs of a batch of anchors, in order.
Hrefs(as) == [i \in 1..Len(as) |-> as[i].href]

\* The subsequence of the hrefs b that keeps b[i] when it is not empty, has
\* the detail path, is not in vis, and occurs at no earlier index.
NewRows(b, vis) ==
    LET keep == {i \in 1..Len(b) :
                    /\ b[i] # <<>>
                    /\ Contains(b[i], DETAIL_URL_PART)
                    /\ b[i] \notin vis
                    /\ \A j \in 1..(i - 1) : b[j] # b[i]}
        nth(k) == CHOOSE i \in keep : Cardinality({j \in keep : j <= i}) = k
    IN [k \in 1..Cardinality(keep) |-> b[nth(k)]]

\* C14: collect_rows returns the visible links of the page that are not
\* empty, have the detail path, are not visited and are first occurrences,
\* in their order on the page; so does its loop on any batch of items; the
\* result has no duplicate and no visited href.
C14_NewRowsInOrder ==
    /\ collect_loop(view.dom, visited, {}) = NewRows(Hrefs(view.dom), visited)
    /\ pc # "collect" =>
           /\ rows = NewRows(Hrefs(SelectSeq(view.dom, LAMBDA a : a.visible)), visited)
           /\ \A i, j \in 1..Len(rows) : i # j => rows[i] # rows[j]
           /\ \A i \in 1..Len(rows) : rows[i] \notin visited

\* collect_rows returned one row of a page of four anchors: it dropped a
\* link without the detail path, a visited link and a repeated one.
C14_Witness ==
    /\ pc = "fetch"
    /\ Len(view.dom) = 4
    /\ Len(rows) = 1
    /\ \E i \in 1..4 : view.dom[i].visible /\ ~Contains(view.dom[i].href, DETAIL_URL_PART)
    /\ \E i \in 1..4 : view.dom[i].visible /\ view.dom[i].href \in visited
    /\ \E i, j \in 1..4 : i # j /\ view.dom[i] = Link(1) /\ view.dom[j] = Link(1)

\* C15: the signature loop of click_next is left towards a True return only
\* by a poll, within the budget, that reads a non-empty signature different
\* from the one before the click; a poll reading an empty or an equal
\* signature never ends it that way, whatever the signature before the
\* click; it is left towards a False return only when the budget is spent,
\* the last poll having read an empty or an equal signature; and True is
\* returned only after such a confirming poll.
C15_AdvanceOnlyOnChange ==
    /\ [][(pc = "cn_poll" /\ pc' # "cn_poll") =>
              LET sig == page_signature(view) IN
              \/ /\ pc' = "wtr"
                 /\ wtrCaller' = "advance"
                 /\ waited < TIMEOUT_MS
                 /\ sig # <<>>
                 /\ sig # cn.prevSig
                 /\ cn'.sig = sig
                 /\ advances' = advances
              \/ /\ pc' = "write"
                 /\ waited >= TIMEOUT_MS
                 /\ cn.polled
                 /\ cn.sig \in {<<>>, cn.prevSig}
                 /\ advances' = Append(advances, FALSE)]_vars
    /\ [][advances' = Append(advances, TRUE) =>
              /\ pc = "wtr" /\ wtrCaller = "advance" /\ pc' = "process"
              /\ cn.clicked /\ cn.polled
              /\ cn.sig # <<>> /\ cn.sig # cn.prevSig]_vars

\* click_next clicked with an empty signature before the click, polled
\* until the budget was spent without ever reading a non-empty signature,
\* and returned False.
C15_Witness ==
    /\ JustStopped
    /\ cn.clicked
    /\ cn.prevSig = <<>>
    /\ cn.sig = <<>>
    /\ Polls = 50

\* The state of the orchestrator's machine the crawl is in.
Phase ==
    IF pc = "loading" THEN "LoadingInitial"
    ELSE IF pc \in {"process", "collect", "fetch", "detail", "close"}
            \/ (pc = "wtr" /\ wtrCaller = "process") THEN "ProcessingPage"
    ELSE IF pc \in {"advance", "cn_button", "cn_poll"}
            \/ (pc = "wtr" /\ wtrCaller = "advance") THEN "AdvancingPage"
    ELSE IF pc \in {"write", "done"} THEN "Done"
    ELSE "Aborted"

\* C16: the machine moves LoadingInitial -> ProcessingPage -> AdvancingPage
\* -> (ProcessingPage | Done) and in no other order: a page's processing,
\* with or without new rows, is left only for one click_next call, whose
\* True leads to ProcessingPage and whose False leads to Done, after which
\* nothing is enumerated, fetched or advanced.  The run is given up only
\* when the initial navigation or the click raises.
C16_StateMachine ==
    [][/\ Phase' # Phase =>
              \/ <<Phase, Phase'>> \in
                     { <<"LoadingInitial", "ProcessingPage">>,
                       <<"ProcessingPage", "AdvancingPage">>,
                       <<"AdvancingPage", "ProcessingPage">>,
                       <<"AdvancingPage", "Done">> }
              \/ Phase' = "Aborted" /\ crash' \in {"goto", "click"}
       /\ advances' # advances =>
              /\ Phase = "AdvancingPage"
              /\ Phase' = IF Last(advances') THEN "ProcessingPage" ELSE "Done"
       /\ (Phase = "AdvancingPage" /\ Phase' \in {"ProcessingPage", "Done"}) =>
              Len(advances') = Len(advances) + 1
       /\ Phase = "Done" =>
              /\ Phase' = "Done"
              /\ UNCHANGED <<rows, fetched, advances, visited, stash>>]_vars

\* C17: the record extract_from_context returns is the one of the two
\* marked elements' texts exactly when both were read and it has a
\* non-empty contract and a non-empty amount; otherwise it is the record of
\* the two patterns on the flattened markup, a field being None when its
\* pattern does not match there.
C17_Tiering ==
    (pc = "close" /\ fetch.ok /\ site.mode = "probe") =>
        LET c == site.ctx
            structured == _extract(c.ct.text \o <<" ">> \o c.vt.text)
            complete == /\ ~c.ct.timeout /\ ~c.vt.timeout
                        /\ structured.contract.some /\ structured.contract.val # <<>>
                        /\ structured.amount.some /\ structured.amount.val # <<>>
            fallback == _extract(GetText(c.html))
        IN /\ fetch.details = IF complete THEN structured ELSE fallback
           /\ (c.ct.timeout /\ c.html = Markup(<<TxtContrato, TxtValor>>)) =>
                  fetch.details = [contract |-> Some(ValContrato), amount |-> Some(ValValor)]
           /\ (~complete /\ c.html = Markup(<<TxtContrato>>)) =>
                  fetch.details = [contract |-> Some(ValContrato), amount |-> None]
           /\ (~complete /\ c.html = Markup(<<TxtValorLabel, TxtValor>>)) =>
                  fetch.details = [contract |-> None, amount |-> Some(ValValor)]
           /\ (~complete /\ c.html = <<>>) => fetch.details = NoDetails
           /\ (complete /\ c.html = Markup(<<TxtContratoOther, TxtValorOther>>)) =>
                  fetch.details = [contract |-> Some(ValContrato), amount |-> Some(ValValor)]

\* Both reads timed out over a markup with both texts: the record comes
\* from the markup.
C17_Witness ==
    /\ pc = "close"
    /\ fetch.ok
    /\ site.mode = "probe"
    /\ site.ctx.ct.timeout /\ site.ctx.vt.timeout
    /\ site.ctx.html = Markup(<<TxtContrato, TxtValor>>)
    /\ fetch.details = [contract |-> Some(ValContrato), amount |-> Some(ValValor)]

\* C18: visited and stash change only in the step of process_current_table
\* that ends the fetch of a row: it adds that row's href to visited and
\* appends at most that fetch's record to the stash.  No step of
\* wait_table_ready, collect_rows, click_next, the detail fetch or the
\* extractor changes either; visited only grows and every earlier stash is
\* a prefix of every later one.
C18_OwnedByRowStep ==
    [][/\ (visited' # visited \/ stash' # stash) =>
              /\ pc \in {"fetch", "close"}
              /\ outcomes' # outcomes
              /\ Len(outcomes') = Len(outcomes) + 1
              /\ visited' = visited \cup {rows[idx]}
              /\ stash' \in {stash, Append(stash, Last(outcomes').details)}
       /\ visited \subseteq visited'
       /\ Len(stash) <= Len(stash')
       /\ SubSeq(stash', 1, Len(stash)) = stash]_vars

\* Two rows have been fetched and stashed over two pages, and click_next is
\* polling again.
C18_Witness ==
    /\ pc = "cn_poll"
    /\ navs = 2
    /\ Len(stash) = 2
    /\ Cardinality(visited) = 2
    /\ Len(advances) >= 1

\* C19: on a site of finitely many pages the crawl comes to an end (Done,
\* or the abort of a failing driver call), also when the next control of
\* the last page is enabled and leads back to the first page.
C19_Terminates == <>(pc \in {"done", "crashed"})

\* The hrefs of the actionable rows of page i of the scripted site.
PageRows(i) == SigHrefs(VISIBLE_ROW_LINK(site.pages[i].dom))

\* A scripted site of N pages, each with an actionable row, the next control
\* enabled on pages 1..N-1 and disabled on page N, consecutive pages with
\* different signatures.
CoverageSite ==
    /\ Scripted
    /\ \A i \in 1..Len(site.pages) : PageRows(i) # <<>>
    /\ \A i \in 1..(Len(site.pages) - 1) :
           /\ site.pages[i].next.present
           /\ ~IsDisabled(site.pages[i].next)
           /\ Join(PageRows(i)) # Join(PageRows(i + 1))
    /\ site.pages[Len(site.pages)].next.present
    /\ IsDisabled(site.pages[Len(site.pages)].next)

\* C20: when the crawl of such a site reaches Done without a failure, the
\* last page fully rendered, every actionable row of every page is in
\* visited and was fetched exactly once, whether the pages render at once
\* or row by row.
C20_Coverage ==
    (pc = "done" /\ crash = "" /\ CoverageSite /\ Dom(view) = site.pages[navs].dom) =>
        \A i \in 1..Len(site.pages) : \A k \in 1..Len(PageRows(i)) :
            /\ PageRows(i)[k] \in visited
            /\ Cardinality({j \in 1..Len(fetched) : fetched[j] = PageRows(i)[k]}) = 1

====
